---- MODULE Spec2Model ----
(***************************************************************************)
(* Model of the live transcription path of backend/websocket_backend.py:   *)
(* handle_client (one coroutine per connection on the event loop),         *)
(* RecordingSession, and start_stt_thread (one thread per activation) with *)
(* its request_generator, which the provider library drives from a thread  *)
(* of its own.                                                             *)
(***************************************************************************)
EXTENDS Integers, Sequences, FiniteSets, TLC

\* ------------------------------------------------------------------ bounds
MaxFrames == 2      \* binary frames received, all connections together
MaxCtl == 2         \* control messages received, all connections together
MaxAct == 2         \* activations (queue + worker thread) per connection
MaxFail == 1        \* provider failures, all streams together
MaxStale == 2       \* request generators of ended streams tracked per worker
MaxFramesLive == 1  \* binary frames received under FairSpec
MaxCtlLive == 1     \* control messages received under FairSpec
MaxFramesMulti == 3 \* binary frames received under SpecMulti
MaxCtlMulti == 1    \* control messages received under SpecMulti
MaxTick == 2        \* clock ticks the model lets pass
MaxResp == 1        \* provider results received, all streams together
MaxRespLive == 1    \* provider results received under FairSpec
MaxFramesResp == 1  \* binary frames received under SpecResp
MaxCtlResp == 1     \* control messages received under SpecResp
MaxFailResp == 1    \* provider failures under SpecResp
MaxFramesPost == 1  \* frames received under SpecPost
MaxCtlPost == 2     \* control messages received under SpecPost
MaxWords == 3       \* words of the recognition result handed to the aggregation code
MaxRespResp == 2    \* provider results received under SpecResp
TicksPerSecond == 2 \* clock resolution below the second

Conns == {"c1", "c2"}
Workers == Conns \X (1..MaxAct)
\* The payloads a frame may carry: none, or two bytes that name the frame
\* (the n-th frame received by the process), so that every non-empty chunk
\* is told from every other.
Chunks(n) == {<<>>, <<n, n>>}
Rates == {16000, 48000}
NoQueue == 0        \* audio_q = None, stt_thread = None

\* Messages of provider exceptions, as the words str(e) is made of.
ErrMsgs ==
  { <<"400", "Audio Timeout", "Error">>,
    <<"OUT_OF_RANGE", "stream duration">>,
    <<"PERMISSION_DENIED", "audio timeout">> }

\* Messages of exceptions raised while a response is processed (print on a
\* console that cannot encode the text, line 212).
ProcErrMsgs == { <<"charmap", "codec", "can't encode">> }

\* alt.transcript, as the characters it is made of.
Texts == { <<>>, <<" ">>, <<" ", "h">> }

\* A provider result: result.is_final and alternatives[0].transcript.
Results == [final : BOOLEAN, text : Texts]

VARIABLES
  now,                  \* the wall clock, in ticks
  files,                \* the file system under SAVE_DIR: path -> bytes
  sessions,             \* the module-level table: session_id -> connection
  framesLeft, ctlLeft,  \* what the clients may still send
  failsLeft,            \* failures the provider may still raise (-1: any number,
                        \* and then nstreams and nfail are not kept)
  respLeft,             \* results the provider may still return
  hpc,                  \* handle_client's position, per connection
  session_id, chunks, total_bytes, written,
  audio_q, current_sample_rate, recording_active, stt_thread,
  nact,                 \* activations made so far, per connection
  sent,                 \* messages written to the client, per connection
  stops,                \* recording_stopped messages received, per connection
  wpc,                  \* start_stt_thread's position, per worker
  q,                    \* the queue.Queue of each activation
  sample_rate,          \* start_stt_thread's sample_rate argument
  gen,                  \* the current stream's request_generator
  stale,                \* request generators of ended streams still in get()
  streamRate,           \* sample rate of the current stream's configuration
  nstreams, nfail, lastErr, exitCause,
  putLog,               \* every item ever put on the queue, in order
  sentAudio,            \* the audio requests the provider received, in order
  transcripts,          \* session.transcripts, per connection
  results,              \* the results each worker has taken from its streams
  loopq,                \* callbacks submitted to the event loop, not yet run
  sumCalls,             \* calls of the summarizer made, per connection
  malformed,            \* malformed control messages received, per connection
  trigger,              \* which frame of the connection started the activation
  post_running,         \* post-processing threads started and not finished
  postLog,              \* what each finished post-processing run did
  words, timed,         \* a recognition result handed to the aggregation code
  applied,              \* which aggregation functions have run on it
  speaker_label, chirp3_turns, upload_turns   \* what they returned

clockVars == <<now>>
fsVars == <<files, sessions>>
budgetVars == <<framesLeft, ctlLeft, failsLeft, respLeft>>
sessVars == <<session_id, chunks, total_bytes, written, transcripts>>
localVars == <<audio_q, current_sample_rate, recording_active, stt_thread, nact>>
threadVars == <<wpc, sample_rate, gen, stale, streamRate, nstreams, nfail, lastErr, exitCause>>
queueVars == <<q, putLog>>
provVars == <<sentAudio, results>>
loopVars == <<loopq>>
ghostVars == <<sumCalls, malformed, trigger>>
postVars == <<post_running, postLog>>
batchVars == <<words, timed, applied, speaker_label, chirp3_turns, upload_turns>>
serverVars == <<clockVars, fsVars, budgetVars, hpc, sessVars, localVars, sent, stops,
                threadVars, queueVars, provVars, loopVars, ghostVars, postVars>>
vars == <<serverVars, batchVars>>

\* ----------------------------------------------------------------- helpers
EndMarker == [kind |-> "end", data |-> <<>>]

Item(chunk) == [kind |-> "chunk", data |-> chunk]

Min(a, b) == IF a < b THEN a ELSE b

RECURSIVE Concat(_)
Concat(ss) == IF ss = <<>> THEN <<>> ELSE Head(ss) \o Concat(Tail(ss))

RECURSIVE SumLen(_)
SumLen(ss) == IF ss = <<>> THEN 0 ELSE Len(Head(ss)) + SumLen(Tail(ss))

\* "x in error_str": the message holds the signature.
Contains(msg, sig) == \E i \in 1..Len(msg) : msg[i] = sig

\* datetime.now().strftime("%Y%m%d_%H%M%S"): the clock cut to the second.
Strftime(t) == t \div TicksPerSecond

\* os.path.join(SAVE_DIR, f"recording_{session_id}.{file_ext}")
Filepath(id) == <<"received_recordings", id, "raw">>

\* open(path, "ab").write(data): creates the file if missing, appends.
AppendFile(fs, path, data) ==
  IF path \in DOMAIN fs
    THEN [fs EXCEPT ![path] = @ \o data]
    ELSE (path :> data) @@ fs

\* queue.Queue.put
Put(qs, w, item) == [qs EXCEPT ![w] = Append(@, item)]

\* "if audio_q:" -- a queue.Queue defines neither __bool__ nor __len__,
\* so it is true whenever it is not None.
Truthy(aq) == aq # NoQueue

\* The event loop runs one coroutine at a time: it is free for another
\* handler or callback only while no handler is inside a call that does not
\* await (Thread.join, generate_summary).
LoopIdle == \A c \in Conns : hpc[c] \in {"init", "recv", "closed"}

IsSpace(ch) == ch = " "

\* str.strip(): the text without its leading and trailing white space.
RECURSIVE LStrip(_)
LStrip(t) == IF t # <<>> /\ IsSpace(Head(t)) THEN LStrip(Tail(t)) ELSE t

RECURSIVE RStrip(_)
RStrip(t) == IF t # <<>> /\ IsSpace(t[Len(t)]) THEN RStrip(SubSeq(t, 1, Len(t) - 1)) ELSE t

Strip(t) == RStrip(LStrip(t))

IsAlive(w) == wpc[w] \in {"open", "stream"}

ThreadJoin_NoTimeout(w, timeout) == wpc[w] = "exited"

\* threading.Thread.join(timeout=3.0): returns when the thread has ended or
\* when the timeout has passed, whichever is first.
ThreadJoin(w, timeout) == wpc[w] = "exited" \/ timeout > 0

JoinTimeout == 3

\* ------------------------------------------------------------------- Init
ServerInit(frames, ctl, fails, resps) ==
  /\ framesLeft = frames
  /\ ctlLeft = ctl
  /\ failsLeft = fails
  /\ respLeft = resps
  /\ now = 0
  /\ files = <<>>
  /\ sessions = <<>>
  /\ hpc = [c \in Conns |-> "init"]
  /\ session_id = [c \in Conns |-> -1]
  /\ chunks = [c \in Conns |-> <<>>]
  /\ total_bytes = [c \in Conns |-> 0]
  /\ written = [c \in Conns |-> <<>>]
  /\ audio_q = [c \in Conns |-> NoQueue]
  /\ current_sample_rate = [c \in Conns |-> 48000]
  /\ recording_active = [c \in Conns |-> FALSE]
  /\ stt_thread = [c \in Conns |-> NoQueue]
  /\ nact = [c \in Conns |-> 0]
  /\ sent = [c \in Conns |-> <<>>]
  /\ stops = [c \in Conns |-> 0]
  /\ wpc = [w \in Workers |-> "unborn"]
  /\ q = [w \in Workers |-> <<>>]
  /\ sample_rate = [w \in Workers |-> 0]
  /\ gen = [w \in Workers |-> "none"]
  /\ stale = [w \in Workers |-> 0]
  /\ streamRate = [w \in Workers |-> 0]
  /\ nstreams = [w \in Workers |-> 0]
  /\ nfail = [w \in Workers |-> 0]
  /\ lastErr = [w \in Workers |-> <<>>]
  /\ exitCause = [w \in Workers |-> "none"]
  /\ putLog = [w \in Workers |-> <<>>]
  /\ sentAudio = [w \in Workers |-> <<>>]
  /\ transcripts = [c \in Conns |-> <<>>]
  /\ results = [w \in Workers |-> <<>>]
  /\ loopq = <<>>
  /\ sumCalls = [c \in Conns |-> 0]
  /\ malformed = [c \in Conns |-> 0]
  /\ trigger = [w \in Workers |-> 0]
  /\ post_running = [c \in Conns |-> 0]
  /\ postLog = [c \in Conns |-> <<>>]

\* No result has been handed to the aggregation code.
BatchIdle ==
  /\ words = <<>>
  /\ timed = FALSE
  /\ applied = {}
  /\ speaker_label = <<>>
  /\ chirp3_turns = <<>>
  /\ upload_turns = <<>>

InitWith(frames, ctl, fails, resps) == ServerInit(frames, ctl, fails, resps) /\ BatchIdle

Init == InitWith(MaxFrames, MaxCtl, MaxFail, MaxResp)

\* ------------------------------------------------------ handle_client
EnterFinally_NoEndMarker(c) ==
  /\ UNCHANGED queueVars
  /\ hpc' = [hpc EXCEPT ![c] = "fin_join"]

\* The "finally:" of handle_client up to the join: the end marker for a
\* recording still active, then the wait for the worker.
EnterFinally(c) ==
  /\ IF recording_active[c] /\ Truthy(audio_q[c])
       THEN /\ q' = Put(q, <<c, audio_q[c]>>, EndMarker)
            /\ putLog' = Put(putLog, <<c, audio_q[c]>>, EndMarker)
       ELSE UNCHANGED queueVars
  /\ hpc' = [hpc EXCEPT ![c] = "fin_join"]

\* A connection is accepted at clock reading t (the clock is read nowhere
\* else in the model, so it moves here): the session is made and registered.
\* Time is counted from the first accept.
Accept(c, t) ==
  /\ hpc[c] = "init"
  /\ LoopIdle
  /\ t >= now
  /\ (\A d \in Conns : hpc[d] = "init") => t = 0
  /\ now' = t
  /\ LET id == Strftime(t) IN
       /\ session_id' = [session_id EXCEPT ![c] = id]
       /\ sessions' = (id :> c) @@ sessions
       /\ sent' = [sent EXCEPT ![c] = Append(@, <<"connected", id>>)]
  /\ hpc' = [hpc EXCEPT ![c] = "recv"]
  /\ UNCHANGED <<stops, files, budgetVars, chunks, total_bytes, written, transcripts,
                 localVars, threadVars, queueVars, provVars, loopVars, ghostVars,
                 postVars, batchVars>>

\* A binary frame: RecordingSession.add_chunk, then the activation on the
\* first frame, then the put.  writeOk = FALSE is the log write raising,
\* which leaves the message loop for the handlers and "finally:".
HandleBinary(c, chunk, writeOk) ==
  /\ hpc[c] = "recv"
  /\ LoopIdle
  /\ framesLeft > 0
  /\ recording_active[c] \/ nact[c] < MaxAct
  /\ framesLeft' = framesLeft - 1
  /\ chunks' = [chunks EXCEPT ![c] = Append(@, chunk)]
  /\ total_bytes' = [total_bytes EXCEPT ![c] = @ + Len(chunk)]
  /\ IF ~writeOk
       THEN /\ EnterFinally(c)
            /\ UNCHANGED <<files, written, localVars, threadVars, trigger>>
       ELSE /\ files' = AppendFile(files, Filepath(session_id[c]), chunk)
            /\ written' = [written EXCEPT ![c] = @ \o chunk]
            /\ hpc' = hpc
            /\ LET k == IF recording_active[c] THEN audio_q[c] ELSE nact[c] + 1
                   w == <<c, k>>
               IN /\ IF ~recording_active[c]
                       THEN /\ recording_active' = [recording_active EXCEPT ![c] = TRUE]
                            /\ audio_q' = [audio_q EXCEPT ![c] = k]
                            /\ stt_thread' = [stt_thread EXCEPT ![c] = k]
                            /\ nact' = [nact EXCEPT ![c] = k]
                            /\ wpc' = [wpc EXCEPT ![w] = "open"]
                            /\ sample_rate' = [sample_rate EXCEPT ![w] = current_sample_rate[c]]
                            /\ trigger' = [trigger EXCEPT ![w] = Len(chunks'[c])]
                       ELSE UNCHANGED <<recording_active, audio_q, stt_thread, nact,
                                        wpc, sample_rate, trigger>>
                  /\ IF Truthy(k)
                       THEN /\ q' = Put(q, w, Item(chunk))
                            /\ putLog' = Put(putLog, w, Item(chunk))
                       ELSE UNCHANGED queueVars
            /\ UNCHANGED <<current_sample_rate, gen, stale, streamRate, nstreams,
                           nfail, lastErr, exitCause>>
  /\ UNCHANGED <<clockVars, sessions, ctlLeft, failsLeft, respLeft, session_id, transcripts,
                 sent, stops, provVars, loopVars, sumCalls, malformed,
                 postVars, batchVars>>

\* {"type": "audio_format", "sampleRateHertz": sr}
HandleAudioFormat(c, sr) ==
  /\ hpc[c] = "recv"
  /\ LoopIdle
  /\ ctlLeft > 0
  /\ ctlLeft' = ctlLeft - 1
  /\ current_sample_rate' = [current_sample_rate EXCEPT ![c] = sr]
  /\ sent' = [sent EXCEPT ![c] = Append(@, <<"audio_format_ack", sr>>)]
  /\ UNCHANGED <<clockVars, fsVars, framesLeft, failsLeft, respLeft, hpc, sessVars, audio_q,
                 recording_active, stt_thread, nact, stops, threadVars, queueVars, provVars,
                 loopVars, ghostVars,
                 postVars, batchVars>>

\* {"type": "recording_stopped"}, up to the join.
HandleStop(c) ==
  /\ hpc[c] = "recv"
  /\ LoopIdle
  /\ ctlLeft > 0
  /\ ctlLeft' = ctlLeft - 1
  /\ IF recording_active[c] /\ Truthy(audio_q[c])
       THEN /\ q' = Put(q, <<c, audio_q[c]>>, EndMarker)
            /\ putLog' = Put(putLog, <<c, audio_q[c]>>, EndMarker)
       ELSE UNCHANGED queueVars
  /\ stops' = [stops EXCEPT ![c] = @ + 1]
  /\ hpc' = [hpc EXCEPT ![c] = "stop_join"]
  /\ UNCHANGED <<clockVars, fsVars, framesLeft, failsLeft, respLeft, sessVars, localVars, sent,
                 threadVars, provVars, loopVars, ghostVars,
                 postVars, batchVars>>

\* stt_thread.join(timeout=3.0) of the stop handler returns (or was not called).
StopJoinReturn(c) ==
  /\ hpc[c] = "stop_join"
  /\ (recording_active[c] /\ Truthy(audio_q[c]) /\ Truthy(stt_thread[c]))
        => ThreadJoin(<<c, stt_thread[c]>>, JoinTimeout)
  /\ hpc' = [hpc EXCEPT ![c] = "stop_summary"]
  /\ UNCHANGED <<clockVars, fsVars, budgetVars, sessVars, localVars, sent, stops,
                 threadVars, queueVars, provVars, loopVars, ghostVars,
                 postVars, batchVars>>

\* "\n".join(f"{t['speaker']}: {t['text']}" ...): what the summarizer is given.
FullText(lines) == [i \in 1..Len(lines) |-> lines[i].text]

\* generate_summary calls the summarizer only for a transcript that has lines.
CallsSummarizer(lines) == lines # <<>>

GenerateSummary_NoEmptyCase(lines, ok) ==
  IF ok THEN [summary |-> <<"summary of", FullText(lines)>>, error |-> <<>>]
        ELSE [summary |-> <<>>, error |-> <<"summarizer failed">>]

\* generate_summary(transcripts); ok = FALSE is the summarizer call raising.
\* None is the empty tuple.
GenerateSummary(lines, ok) ==
  IF ~CallsSummarizer(lines)
    THEN [summary |-> <<"No transcription available">>, key_points |-> <<>>]
    ELSE IF ok THEN [summary |-> <<"summary of", FullText(lines)>>, error |-> <<>>]
               ELSE [summary |-> <<>>, error |-> <<"summarizer failed">>]

StopFinish_NoReset(c, ok) ==
  /\ hpc[c] = "stop_summary"
  /\ sumCalls' = [sumCalls EXCEPT ![c] = IF CallsSummarizer(transcripts[c]) THEN @ + 1 ELSE @]
  /\ post_running' = [post_running EXCEPT ![c] = @ + 1]
  /\ sent' = [sent EXCEPT ![c] =
                Append(@, <<"recording_stopped_ack", GenerateSummary(transcripts[c], ok)>>)]
  /\ hpc' = [hpc EXCEPT ![c] = "recv"]
  /\ UNCHANGED <<clockVars, fsVars, budgetVars, sessVars, localVars,
                 stops, threadVars, queueVars, provVars, loopVars, malformed, trigger,
                 postLog, batchVars>>

\* generate_summary returns; the locals are reset and the ack is sent.
StopFinish(c, ok) ==
  /\ hpc[c] = "stop_summary"
  /\ sumCalls' = [sumCalls EXCEPT ![c] = IF CallsSummarizer(transcripts[c]) THEN @ + 1 ELSE @]
  /\ post_running' = [post_running EXCEPT ![c] = @ + 1]
  /\ recording_active' = [recording_active EXCEPT ![c] = FALSE]
  /\ audio_q' = [audio_q EXCEPT ![c] = NoQueue]
  /\ stt_thread' = [stt_thread EXCEPT ![c] = NoQueue]
  /\ sent' = [sent EXCEPT ![c] =
                Append(@, <<"recording_stopped_ack", GenerateSummary(transcripts[c], ok)>>)]
  /\ hpc' = [hpc EXCEPT ![c] = "recv"]
  /\ UNCHANGED <<clockVars, fsVars, budgetVars, sessVars, current_sample_rate, nact,
                 stops, threadVars, queueVars, provVars, loopVars, malformed, trigger,
                 postLog, batchVars>>

GetStats_CountsBytes(c) ==
  [session_id |-> session_id[c],
   chunks_received |-> total_bytes[c],
   total_bytes |-> total_bytes[c],
   total_mb |-> (total_bytes[c] * 100 + 524288) \div 1048576,
   filepath |-> Filepath(session_id[c]),
   transcript_lines |-> Len(transcripts[c])]

\* RecordingSession.get_stats, without duration_seconds (the clock is not
\* read here); total_mb in hundredths of a MiB.
GetStats(c) ==
  [session_id |-> session_id[c],
   chunks_received |-> Len(chunks[c]),
   total_bytes |-> total_bytes[c],
   total_mb |-> (total_bytes[c] * 100 + 524288) \div 1048576,
   filepath |-> Filepath(session_id[c]),
   transcript_lines |-> Len(transcripts[c])]

\* {"type": "recording_complete"}
HandleComplete(c) ==
  /\ hpc[c] = "recv"
  /\ LoopIdle
  /\ ctlLeft > 0
  /\ ctlLeft' = ctlLeft - 1
  /\ sent' = [sent EXCEPT ![c] = Append(@, <<"recording_saved", GetStats(c)>>)]
  /\ UNCHANGED <<clockVars, fsVars, framesLeft, failsLeft, respLeft, hpc, sessVars, localVars,
                 stops, threadVars, queueVars, provVars, loopVars, ghostVars,
                 postVars, batchVars>>

\* A control message the handler cannot take: text that json.loads rejects
\* (JSONDecodeError, caught at line 377), JSON that is no object (data.get
\* raises AttributeError), or an audio_format whose sampleRateHertz int()
\* rejects (ValueError).  Only the first is caught inside the loop; the
\* others leave it for "except Exception" and "finally:".
MalformedKinds == {"not_json", "not_object", "bad_rate"}

HandleMalformed(c, kind) ==
  /\ hpc[c] = "recv"
  /\ LoopIdle
  /\ ctlLeft > 0
  /\ ctlLeft' = ctlLeft - 1
  /\ malformed' = [malformed EXCEPT ![c] = @ + 1]
  /\ IF kind = "not_json"
       THEN UNCHANGED <<hpc, queueVars>>
       ELSE EnterFinally(c)
  /\ UNCHANGED <<clockVars, fsVars, framesLeft, failsLeft, respLeft, sessVars, localVars, sent,
                 stops, threadVars, provVars, loopVars, sumCalls, trigger,
                 postVars, batchVars>>

\* The client closes: "async for" raises ConnectionClosed.
Close(c) ==
  /\ hpc[c] = "recv"
  /\ LoopIdle
  /\ EnterFinally(c)
  /\ UNCHANGED <<clockVars, fsVars, budgetVars, sessVars, localVars, sent, stops,
                 threadVars, provVars, loopVars, ghostVars,
                 postVars, batchVars>>

\* The join of "finally:" returns (or was not called); the session leaves the table.
FinJoinReturn(c) ==
  /\ hpc[c] = "fin_join"
  /\ Truthy(stt_thread[c]) => ThreadJoin(<<c, stt_thread[c]>>, JoinTimeout)
  /\ sessions' = [id \in DOMAIN sessions \ {session_id[c]} |-> sessions[id]]
  /\ hpc' = [hpc EXCEPT ![c] = "closed"]
  /\ UNCHANGED <<clockVars, files, budgetVars, sessVars, localVars, sent, stops,
                 threadVars, queueVars, provVars, loopVars, ghostVars,
                 postVars, batchVars>>

\* ---------------------------------------------------- start_stt_thread
\* The top of "while True:": a fresh configuration, a fresh generator, and
\* speech_client.streaming_recognize.
WorkerOpen(w) ==
  /\ wpc[w] = "open"
  /\ wpc' = [wpc EXCEPT ![w] = "stream"]
  /\ streamRate' = [streamRate EXCEPT ![w] = sample_rate[w]]
  /\ gen' = [gen EXCEPT ![w] = "live"]
  /\ nstreams' = [nstreams EXCEPT ![w] = IF failsLeft >= 0 THEN @ + 1 ELSE @]
  /\ UNCHANGED <<clockVars, fsVars, budgetVars, hpc, sessVars, localVars, sent, stops,
                 sample_rate, stale, nfail, lastErr, exitCause, queueVars, provVars,
                 loopVars, ghostVars,
                 postVars, batchVars>>

Yields_EveryChunk(item) == item.kind = "chunk"

\* "if len(chunk) > 0": the items request_generator turns into audio requests.
Yields(item) == item.kind = "chunk" /\ Len(item.data) > 0

\* request_generator of the live stream: one audio_q.get that returns an item.
GenNext(w) ==
  /\ wpc[w] = "stream"
  /\ gen[w] = "live"
  /\ q[w] # <<>>
  /\ q' = [q EXCEPT ![w] = Tail(@)]
  /\ LET item == Head(q[w]) IN
       /\ gen' = [gen EXCEPT ![w] = IF item.kind = "end" THEN "returned" ELSE @]
       /\ sentAudio' = [sentAudio EXCEPT ![w] =
             IF Yields(item) THEN Append(@, item.data) ELSE @]
  /\ UNCHANGED <<clockVars, fsVars, budgetVars, hpc, sessVars, localVars, sent, stops,
                 wpc, sample_rate, stale, streamRate, nstreams, nfail, lastErr,
                 exitCause, putLog, results, loopVars, ghostVars,
                 postVars, batchVars>>

\* request_generator of an ended stream: the library's request thread is
\* still inside next(), in audio_q.get; what it yields goes nowhere.
StaleNext(w) ==
  /\ stale[w] > 0
  /\ q[w] # <<>>
  /\ q' = [q EXCEPT ![w] = Tail(@)]
  /\ LET item == Head(q[w]) IN
       IF item.kind = "end" \/ Yields(item)
         THEN stale' = [stale EXCEPT ![w] = @ - 1]
         ELSE UNCHANGED stale
  /\ UNCHANGED <<clockVars, fsVars, budgetVars, hpc, sessVars, localVars, sent, stops,
                 wpc, sample_rate, gen, streamRate, nstreams, nfail, lastErr,
                 exitCause, putLog, provVars, loopVars, ghostVars,
                 postVars, batchVars>>

\* What ending a stream leaves behind: its generator, unless it has returned.
StaleAfterEnd(w) == IF gen[w] = "live" THEN Min(stale[w] + 1, MaxStale) ELSE stale[w]

\* "for response in responses" ends: the stream closed, the worker breaks.
StreamClosed(w) ==
  /\ wpc[w] = "stream"
  /\ wpc' = [wpc EXCEPT ![w] = "exited"]
  /\ exitCause' = [exitCause EXCEPT ![w] = IF gen[w] = "returned" THEN "drained" ELSE "closed"]
  /\ stale' = [stale EXCEPT ![w] = StaleAfterEnd(w)]
  /\ gen' = [gen EXCEPT ![w] = "none"]
  /\ UNCHANGED <<clockVars, fsVars, budgetVars, hpc, sessVars, localVars, sent, stops,
                 sample_rate, streamRate, nstreams, nfail, lastErr, queueVars, provVars,
                 loopVars, ghostVars,
                 postVars, batchVars>>

IsSilenceTimeout_OnlyAudioTimeout(msg) == Contains(msg, "Audio Timeout")

\* "Audio Timeout" in error_str or "OUT_OF_RANGE" in error_str
IsSilenceTimeout(msg) == Contains(msg, "Audio Timeout") \/ Contains(msg, "OUT_OF_RANGE")

\* "except Exception as e": the one handler around the stream and the
\* processing of its responses; cause names where the exception came from.
Except(w, msg, cause) ==
  /\ lastErr' = [lastErr EXCEPT ![w] = msg]
  /\ stale' = [stale EXCEPT ![w] = StaleAfterEnd(w)]
  /\ gen' = [gen EXCEPT ![w] = "none"]
  /\ IF IsSilenceTimeout(msg)
       THEN /\ wpc' = [wpc EXCEPT ![w] = "open"]
            /\ UNCHANGED exitCause
       ELSE /\ wpc' = [wpc EXCEPT ![w] = "exited"]
            /\ exitCause' = [exitCause EXCEPT ![w] = cause]

\* The stream raises.
StreamError(w, msg) ==
  /\ wpc[w] = "stream"
  /\ failsLeft # 0
  /\ failsLeft' = IF failsLeft > 0 THEN failsLeft - 1 ELSE failsLeft
  /\ nfail' = [nfail EXCEPT ![w] = IF failsLeft >= 0 THEN @ + 1 ELSE @]
  /\ Except(w, msg, "error")
  /\ UNCHANGED <<clockVars, fsVars, framesLeft, ctlLeft, respLeft, hpc, sessVars, localVars,
                 sent, stops, sample_rate, streamRate, nstreams, queueVars, provVars,
                 loopVars, ghostVars,
                 postVars, batchVars>>

Persist_NoStrip(res) == res.final /\ res.text # <<>>

\* "if is_final and transcript.strip():"
Persist(res) == res.final /\ Strip(res.text) # <<>>

\* The payload of a transcript event: the worker it comes from, the number
\* of the result among the worker's results, "final" and "text".
Payload(w, n, res) == <<"transcript", [act |-> w[2], n |-> n, final |-> res.final, text |-> res.text]>>

\* One pass of "for response in responses" over a response with one result
\* that has an alternative: the transcript line for a final result with
\* text, the print, and the send handed to the event loop.  raises = TRUE is
\* the print raising (the first statement of the body that can, after
\* add_transcript); no try encloses the body of the loop but the one around
\* the whole stream.  The provider returns results for audio it was sent.
RecvResult(w, res, raises, msg) ==
  /\ wpc[w] = "stream"
  /\ respLeft > 0
  /\ sentAudio[w] # <<>>
  /\ respLeft' = respLeft - 1
  /\ results' = [results EXCEPT ![w] = Append(@, res)]
  /\ LET n == Len(results[w]) + 1
         c == w[1]
     IN /\ transcripts' = [transcripts EXCEPT ![c] =
               IF Persist(res) THEN Append(@, [act |-> w[2], n |-> n, text |-> res.text]) ELSE @]
        /\ IF raises
             THEN /\ Except(w, msg, "response_error")
                  /\ UNCHANGED loopq
             ELSE /\ loopq' = Append(loopq, <<c, Payload(w, n, res)>>)
                  /\ UNCHANGED <<wpc, lastErr, stale, gen, exitCause>>
  /\ UNCHANGED <<clockVars, fsVars, framesLeft, ctlLeft, failsLeft, hpc, session_id, chunks,
                 total_bytes, written, localVars, sent, stops, sample_rate, streamRate,
                 nstreams, nfail, queueVars, sentAudio, ghostVars,
                 postVars, batchVars>>

\* ------------------------------------------------------- the event loop
NextCallback_Newest(lq) == Len(lq)

\* loop.call_soon_threadsafe keeps the callbacks in the order they were
\* submitted: the loop runs the oldest first.
NextCallback(lq) == 1

\* The loop runs a callback submitted by run_coroutine_threadsafe:
\* websocket.send writes the event, or raises ConnectionClosed into a future
\* nobody reads when the connection is gone.
LoopRunCallback ==
  /\ LoopIdle
  /\ loopq # <<>>
  /\ LET i == NextCallback(loopq)
         c == loopq[i][1]
     IN /\ loopq' = SubSeq(loopq, 1, i - 1) \o SubSeq(loopq, i + 1, Len(loopq))
        /\ sent' = IF hpc[c] = "recv"
                     THEN [sent EXCEPT ![c] = Append(@, loopq[i][2])]
                     ELSE sent
  /\ UNCHANGED <<clockVars, fsVars, budgetVars, hpc, sessVars, localVars, stops,
                 threadVars, queueVars, provVars, ghostVars,
                 postVars, batchVars>>

\* ------------------------------------------------------------------- Next
HandlerStep(c) ==
  \/ \E t \in 0..MaxTick : Accept(c, t)
  \/ \E chunk \in Chunks(MaxFrames - framesLeft + 1), writeOk \in BOOLEAN : HandleBinary(c, chunk, writeOk)
  \/ \E sr \in Rates : HandleAudioFormat(c, sr)
  \/ HandleStop(c)
  \/ StopJoinReturn(c)
  \/ \E ok \in BOOLEAN : StopFinish(c, ok)
  \/ HandleComplete(c)
  \/ \E kind \in MalformedKinds : HandleMalformed(c, kind)
  \/ Close(c)
  \/ FinJoinReturn(c)

WorkerStep(w) == WorkerOpen(w) \/ GenNext(w) \/ StaleNext(w)

ProviderEnds(w) == StreamClosed(w) \/ \E msg \in ErrMsgs : StreamError(w, msg)

ProviderReturns(w) ==
  \E res \in Results, raises \in BOOLEAN, msg \in ProcErrMsgs : RecvResult(w, res, raises, msg)

\* One connection and its workers.
ConnNext(c) ==
  \/ HandlerStep(c)
  \/ \E k \in 1..MaxAct : WorkerStep(<<c, k>>) \/ ProviderEnds(<<c, k>>) \/ ProviderReturns(<<c, k>>)

Next == ConnNext("c1") \/ LoopRunCallback

Spec == Init /\ [][Next]_vars

\* The scheduling the liveness claims rest on: the event loop runs a handler
\* to its next await (the join is bounded, the summarizer call returns or
\* raises into its own handler), the worker thread and the library's request
\* thread are scheduled (a live generator that finds an item again and again
\* does take one), and the provider ends every stream it is given, in one
\* way or another and any number of times.
Fairness ==
  /\ WF_vars(StopJoinReturn("c1") \/ (\E ok \in BOOLEAN : StopFinish("c1", ok)) \/ FinJoinReturn("c1"))
  /\ \A k \in 1..MaxAct : WF_vars(WorkerOpen(<<"c1", k>>))
  /\ \A k \in 1..MaxAct : SF_vars(GenNext(<<"c1", k>>))
  /\ \A k \in 1..MaxAct : WF_vars(ProviderEnds(<<"c1", k>>))

\* Several connections in one process, seen from the event loop: the
\* handlers of all connections, the worker threads not scheduled.  No handler
\* waits for a worker without a timeout, so a behaviour of SpecMulti is a
\* behaviour of the process in which the workers started have not run yet.
NextMulti == \E c \in Conns : HandlerStep(c)

SpecMulti == InitWith(MaxFramesMulti, MaxCtlMulti, 0, 0) /\ [][NextMulti]_vars

\* One connection again, with fewer frames and more provider results.
SpecResp == InitWith(MaxFramesResp, MaxCtlResp, MaxFailResp, MaxRespResp) /\ [][Next]_vars

FairSpec == InitWith(MaxFramesLive, MaxCtlLive, -1, MaxRespLive) /\ [][Next]_vars /\ Fairness

\* ------------------------------------------------------ post-processing
\* Where a run of process_file fails: nowhere, in one of the three steps
\* whose exception reaches process_file's "except Exception", or in the
\* summarizer, whose exception generate_summary catches itself.
PostStages == {"none", "transcode", "upload", "recognition", "summary"}

\* str(e) of the exception: some text, or the empty string.
PostErrMsgs == {"failed", ""}

\* bool(x) is False for None and for the empty string.
Falsy(x) == x \in {"None", ""}

\* process_file: (transcripts, summary, error).
ProcessFile(stage, msg) ==
  IF stage \in {"transcode", "upload", "recognition"}
    THEN [transcripts |-> "None", summary |-> "None", error |-> msg]
    ELSE [transcripts |-> "lines",
          summary |-> IF stage = "summary" THEN "summary_error" ELSE "summary",
          error |-> "None"]

PostError(error) == <<"post_processing_error", error>>

PostComplete(r) == <<"post_processing_complete", r.transcripts, r.summary>>

\* post_process_recording_async after process_file has returned r: the
\* events it submits to the loop, in order.  len(transcripts) at line 276
\* raises TypeError for None, after the complete event was submitted, and
\* "except Exception" submits an error event for it.
PostEvents(r) ==
  IF ~Falsy(r.error)
    THEN << PostError(r.error) >>
    ELSE << PostComplete(r) >> \o
         (IF r.transcripts = "None" THEN << PostError("TypeError") >> ELSE <<>>)

RECURSIVE Tagged(_, _)
Tagged(c, evs) == IF evs = <<>> THEN <<>> ELSE << <<c, Head(evs)>> >> \o Tagged(c, Tail(evs))

\* One run of the post-processing thread of connection c, from start to
\* return; it shares nothing with the session but the file it reads.
PostRun(c, stage, msg) ==
  /\ post_running[c] > 0
  /\ post_running' = [post_running EXCEPT ![c] = @ - 1]
  /\ postLog' = [postLog EXCEPT ![c] = Append(@, [stage |-> stage, msg |-> msg])]
  /\ loopq' = loopq \o Tagged(c, PostEvents(ProcessFile(stage, msg)))
  /\ UNCHANGED <<clockVars, fsVars, budgetVars, hpc, sessVars, localVars, sent, stops,
                 threadVars, queueVars, provVars, ghostVars, batchVars>>

NextPost ==
  \/ HandlerStep("c1")
  \/ \E stage \in PostStages : \E msg \in PostErrMsgs : PostRun("c1", stage, msg)
  \/ LoopRunCallback

\* One connection and its post-processing threads; the live workers are not
\* scheduled.
SpecPost == InitWith(MaxFramesPost, MaxCtlPost, 0, 0) /\ [][NextPost]_vars

\* ------------------------------------------- speaker labels and turns
\* Text is kept as the sequence of its pieces, a blank being the piece " ".
\* A word of a result: its speaker label ("" when the provider gave none)
\* and its text.
SpeakerLabels == {"", "1", "2"}

WordTexts == { <<"hi">>, <<"ok">> }

WordInfos == [label : SpeakerLabels, word : WordTexts]

WordSeqs == UNION { [1..n -> WordInfos] : n \in 0..MaxWords }

\* alternative.transcript of a result that comes without word information.
NoWordsTranscript == <<"hi", " ", "ok">>

\* " ".join(texts)
RECURSIVE JoinSpace(_)
JoinSpace(ts) ==
  IF ts = <<>> THEN <<>>
  ELSE IF Len(ts) = 1 THEN Head(ts)
       ELSE Head(ts) \o <<" ">> \o JoinSpace(Tail(ts))

\* f"Speaker {label}"
SpeakerName(label) == <<"Speaker", " ", label>>

\* The keys of Counter(tags), in the order a dict keeps them: first seen first.
RECURSIVE CounterKeys(_, _)
CounterKeys(tags, seen) ==
  IF tags = <<>> THEN seen
  ELSE IF \E i \in 1..Len(seen) : seen[i] = Head(tags)
         THEN CounterKeys(Tail(tags), seen)
         ELSE CounterKeys(Tail(tags), Append(seen, Head(tags)))

CounterCount(tags, t) == Cardinality({i \in 1..Len(tags) : tags[i] = t})

RECURSIVE MaxByCount_LastWins(_, _, _)
MaxByCount_LastWins(keys, tags, best) ==
  IF keys = <<>> THEN best
  ELSE MaxByCount_LastWins(Tail(keys), tags,
         IF CounterCount(tags, Head(keys)) >= CounterCount(tags, best) THEN Head(keys) ELSE best)

\* Counter.most_common(1)[0][0]: max() over the items by count, which keeps
\* the first of the items with the greatest count.
RECURSIVE MaxByCount(_, _, _)
MaxByCount(keys, tags, best) ==
  IF keys = <<>> THEN best
  ELSE MaxByCount(Tail(keys), tags,
         IF CounterCount(tags, Head(keys)) > CounterCount(tags, best) THEN Head(keys) ELSE best)

MostCommon(tags) ==
  LET keys == CounterKeys(tags, <<>>) IN MaxByCount(Tail(keys), tags, Head(keys))

IsLabeled(w) == w.label # ""

\* The speaker label of an event of the live path (lines 199-205).
SpeakerLabelOf(ws) ==
  LET labeled == SelectSeq(ws, IsLabeled)
      speaker_tags == [i \in 1..Len(labeled) |-> labeled[i].label]
  IN IF speaker_tags # <<>> THEN SpeakerName(MostCommon(speaker_tags)) ELSE <<"Speaker">>

RECURSIVE Chirp3Loop_NoFlushOnChange(_, _, _, _)
Chirp3Loop_NoFlushOnChange(ws, cur, text, out) ==
  IF ws = <<>>
    THEN IF text # <<>> THEN Append(out, [speaker |-> cur, text |-> JoinSpace(text)]) ELSE out
    ELSE LET w == Head(ws)
             speaker_name == IF w.label # "" THEN SpeakerName(w.label)
                                             ELSE <<"Unknown", " ", "Speaker">>
             cur1 == IF cur = <<>> THEN speaker_name ELSE cur
             new == w.label # "" /\ speaker_name # cur1
         IN Chirp3Loop_NoFlushOnChange(Tail(ws), IF new THEN speaker_name ELSE cur1,
                                       Append(IF new THEN <<>> ELSE text, w.word), out)

\* transcribe_with_chirp3, "for word_info in alternative.words": cur is
\* current_speaker (<<>> for None), text is current_text, out is what the
\* result has added to transcripts.  A turn is kept as speaker and text.
RECURSIVE Chirp3Loop(_, _, _, _)
Chirp3Loop(ws, cur, text, out) ==
  IF ws = <<>>
    THEN IF text # <<>> THEN Append(out, [speaker |-> cur, text |-> JoinSpace(text)]) ELSE out
    ELSE LET w == Head(ws)
             speaker_name == IF w.label # "" THEN SpeakerName(w.label)
                                             ELSE <<"Unknown", " ", "Speaker">>
             cur1 == IF cur = <<>> THEN speaker_name ELSE cur
             new == w.label # "" /\ speaker_name # cur1
             out1 == IF new /\ text # <<>>
                       THEN Append(out, [speaker |-> cur1, text |-> JoinSpace(text)])
                       ELSE out
         IN Chirp3Loop(Tail(ws), IF new THEN speaker_name ELSE cur1,
                       Append(IF new THEN <<>> ELSE text, w.word), out1)

\* The turns transcribe_with_chirp3 makes of one result.
Chirp3Turns(ws) ==
  IF ws = <<>>
    THEN << [speaker |-> SpeakerName("1"), text |-> NoWordsTranscript] >>
    ELSE Chirp3Loop(ws, <<>>, <<>>, <<>>)

\* transcribe_batch_chirp3: the segments of one result, one per word, or one
\* for the whole text; None is <<>>.  tm tells whether the words carry the
\* start_time that line 75 looks for.
Segments(ws, tm) ==
  IF ws # <<>>
    THEN [i \in 1..Len(ws) |->
            [speaker |-> IF ws[i].label # "" THEN SpeakerName(ws[i].label) ELSE <<>>,
             start_time |-> IF tm THEN <<"0s">> ELSE <<>>,
             text |-> ws[i].word]]
    ELSE << [speaker |-> <<>>, start_time |-> <<>>, text |-> NoWordsTranscript] >>

SegmentSpeaker(sg) == IF sg.speaker # <<>> THEN sg.speaker ELSE <<"Speaker">>

\* upload, the grouping loop (lines 155-165): has is "current is not None".
RECURSIVE UploadLoop(_, _, _, _)
UploadLoop(segs, has, current, lines_out) ==
  IF segs = <<>>
    THEN IF has THEN Append(lines_out, current) ELSE lines_out
    ELSE LET sg == Head(segs)
             speaker == SegmentSpeaker(sg)
         IN IF ~has \/ current.speaker # speaker
              THEN LET ts == IF has THEN Append(lines_out, current) ELSE lines_out
                   IN UploadLoop(Tail(segs), TRUE,
                                 [id |-> Len(ts) + 1, speaker |-> speaker, text |-> sg.text], ts)
              ELSE UploadLoop(Tail(segs), TRUE,
                              [current EXCEPT !.text = @ \o <<" ">> \o sg.text], lines_out)

\* upload, lines 151-169: the transcript lines made of the segments.
UploadTurns(segs) ==
  IF segs # <<>> /\ \E i \in 1..Len(segs) : segs[i].start_time # <<>>
    THEN UploadLoop(segs, FALSE, [id |-> 0, speaker |-> <<>>, text |-> <<>>], <<>>)
    ELSE [i \in 1..Len(segs) |->
            [id |-> i, speaker |-> SegmentSpeaker(segs[i]), text |-> segs[i].text]]

\* A result reaches the code: any words, with or without timing.
BatchInit ==
  /\ ServerInit(0, 0, 0, 0)
  /\ words \in WordSeqs
  /\ timed \in BOOLEAN
  /\ applied = {}
  /\ speaker_label = <<>>
  /\ chirp3_turns = <<>>
  /\ upload_turns = <<>>

DeriveSpeakerLabel ==
  /\ "speaker_label" \notin applied
  /\ applied' = applied \cup {"speaker_label"}
  /\ speaker_label' = SpeakerLabelOf(words)
  /\ UNCHANGED <<serverVars, words, timed, chirp3_turns, upload_turns>>

AggregateChirp3 ==
  /\ "chirp3" \notin applied
  /\ applied' = applied \cup {"chirp3"}
  /\ chirp3_turns' = Chirp3Turns(words)
  /\ UNCHANGED <<serverVars, words, timed, speaker_label, upload_turns>>

AggregateUpload ==
  /\ "upload" \notin applied
  /\ applied' = applied \cup {"upload"}
  /\ upload_turns' = UploadTurns(Segments(words, timed))
  /\ UNCHANGED <<serverVars, words, timed, speaker_label, chirp3_turns>>

NextBatch == DeriveSpeakerLabel \/ AggregateChirp3 \/ AggregateUpload

SpecBatch == BatchInit /\ [][NextBatch]_vars

\* ================================================================= claims
WorkersOf(c) == {<<c, k>> : k \in 1..MaxAct}

\* The chunks put on a queue before its first end marker that are not empty.
RECURSIVE AudioBeforeEnd(_)
AudioBeforeEnd(items) ==
  IF items = <<>> \/ Head(items).kind = "end" THEN <<>>
  ELSE IF Len(Head(items).data) > 0
         THEN <<Head(items).data>> \o AudioBeforeEnd(Tail(items))
         ELSE AudioBeforeEnd(Tail(items))

\* C1: in every reachable state, at most one worker thread started for a
\* connection's session is still running.
C1_AtMostOneWorkerRunning ==
  \A c \in Conns : Cardinality({w \in WorkersOf(c) : IsAlive(w)}) <= 1

\* C2: between two messages, recording_active is true if and only if a
\* running worker thread is bound to the session's current Transfer Queue.
C2_ActiveIffWorkerOwnsQueue ==
  \A c \in Conns :
    hpc[c] = "recv" =>
      (recording_active[c] <=> (Truthy(audio_q[c]) /\ IsAlive(<<c, audio_q[c]>>)))

\* C3: a worker whose streams failed k times with the recognized signature
\* and whose last stream completed after the end marker has opened exactly
\* k+1 streams and has sent every non-empty chunk put on its queue before
\* the end marker to the provider exactly once, in order.
C3_RetryLosesNoChunk ==
  \A w \in Workers :
    exitCause[w] = "drained" =>
      /\ nstreams[w] = nfail[w] + 1
      /\ sentAudio[w] = AudioBeforeEnd(putLog[w])

NumAcks(c) == Cardinality({i \in 1..Len(sent[c]) : sent[c][i][1] = "recording_stopped_ack"})

HasEndMarker(w) == \E i \in 1..Len(putLog[w]) : putLog[w][i].kind = "end"

\* C4: a stop processed while the worker is running returns to the message
\* loop whatever the worker does: the ack of that stop is sent and the
\* connection is left with recording_active false, no queue and no worker
\* handle.
C4_StopReturnsWhateverTheWorkerDoes ==
  \A c \in {"c1"} :
    (hpc[c] = "stop_join" /\ recording_active[c] /\ Truthy(stt_thread[c])
       /\ IsAlive(<<c, stt_thread[c]>>))
    ~> (/\ hpc[c] = "recv"
        /\ NumAcks(c) = stops[c]
        /\ ~recording_active[c]
        /\ audio_q[c] = NoQueue
        /\ stt_thread[c] = NoQueue)

\* C4 witness: the stop is over, its ack sent, and the worker it waited for
\* is still running.
C4_Witness ==
  \E c \in Conns :
    /\ hpc[c] = "recv"
    /\ stops[c] = 1
    /\ NumAcks(c) = 1
    /\ ~recording_active[c] /\ audio_q[c] = NoQueue /\ stt_thread[c] = NoQueue
    /\ IsAlive(<<c, 1>>)
    /\ HasEndMarker(<<c, 1>>)

\* C5: once the end marker is on a queue, the worker bound to the queue
\* eventually exits.
C5_WorkerExitsAfterEndMarker ==
  \A w \in WorkersOf("c1") : HasEndMarker(w) ~> (wpc[w] = "exited")

\* C6: a stream failure whose message holds "Audio Timeout" or
\* "OUT_OF_RANGE" sends the worker back to open a stream, which takes the
\* worker's own sample rate and finds the queue as the failure left it; any
\* other failure ends the worker, and an ended worker opens no stream.
C6_TwoTierErrorPolicy ==
  [][\A w \in Workers :
       /\ (wpc[w] = "stream" /\ nfail'[w] = nfail[w] + 1) =>
            /\ q'[w] = q[w]
            /\ sample_rate'[w] = sample_rate[w]
            /\ IF Contains(lastErr'[w], "Audio Timeout") \/ Contains(lastErr'[w], "OUT_OF_RANGE")
                 THEN wpc'[w] = "open"
                 ELSE wpc'[w] = "exited" /\ nstreams'[w] = nstreams[w]
       /\ (wpc[w] = "open" /\ wpc'[w] # "open") =>
            /\ wpc'[w] = "stream"
            /\ nstreams'[w] = nstreams[w] + 1
            /\ gen'[w] = "live"
            /\ streamRate'[w] = sample_rate[w]
            /\ sample_rate'[w] = sample_rate[w]
            /\ q'[w] = q[w]
       /\ wpc[w] = "exited" => (wpc'[w] = "exited" /\ nstreams'[w] = nstreams[w])
    ]_vars

\* C6 witness: a stream reopened after a recognized failure, with the
\* worker's rate, after the connection's rate has moved on; and a worker
\* ended by another failure.
C6_Witness ==
  \E w \in Workers :
    /\ wpc[w] = "stream"
    /\ nstreams[w] = 2
    /\ Contains(lastErr[w], "OUT_OF_RANGE")
    /\ streamRate[w] = sample_rate[w]
    /\ streamRate[w] # current_sample_rate[w[1]]

\* What a path holds; nothing where no file is.
FileContent(path) == IF path \in DOMAIN files THEN files[path] ELSE <<>>

Accepted(c) == hpc[c] # "init"

\* Every log write of the session has completed (none has raised).
WritesCompleted(c) == written[c] = Concat(chunks[c])

\* C7: total_bytes is the sum of the lengths of the frames the session has
\* received, and once all writes have completed it is the byte length of the
\* session's log file.
C7_TotalBytesIsLogLength ==
  \A c \in Conns :
    Accepted(c) =>
      /\ total_bytes[c] = SumLen(chunks[c])
      /\ WritesCompleted(c) =>
            Len(FileContent(Filepath(session_id[c]))) = total_bytes[c]

\* C9: two sessions made by handle_client have different session_id values,
\* hence different log paths and different keys in the session table.
C9_SessionIdsDiffer ==
  \A c \in Conns : \A d \in Conns \ {c} :
    (Accepted(c) /\ Accepted(d)) =>
      /\ session_id[c] # session_id[d]
      /\ Filepath(session_id[c]) # Filepath(session_id[d])

\* C10: the log file of a session holds exactly the frames received on the
\* session's connection, concatenated in arrival order.
C10_LogIsTheSessionsFrames ==
  \A c \in Conns :
    (Accepted(c) /\ WritesCompleted(c)) =>
      FileContent(Filepath(session_id[c])) = Concat(chunks[c])

\* C8: no zero-length chunk is ever put on a Transfer Queue.
C8_EmptyChunkNeverQueued ==
  \A w \in Workers :
    \A i \in 1..Len(putLog[w]) :
      putLog[w][i].kind = "chunk" => Len(putLog[w][i].data) > 0

\* ---------------------------------------------------------------- C11
IsPrefix(a, b) == Len(a) <= Len(b) /\ a = SubSeq(b, 1, Len(a))

\* The frames received on the connection of w from the frame that started
\* the activation w up to the frame before the one that started the next
\* activation (or up to the last frame received).
FramesOf(w) ==
  LET c == w[1]
      last == IF nact[c] > w[2] THEN trigger[<<c, w[2] + 1>>] - 1 ELSE Len(chunks[c])
  IN SubSeq(chunks[c], trigger[w], last)

RECURSIVE NonEmpty(_)
NonEmpty(ss) ==
  IF ss = <<>> THEN <<>>
  ELSE IF Len(Head(ss)) > 0 THEN <<Head(ss)>> \o NonEmpty(Tail(ss))
       ELSE NonEmpty(Tail(ss))

\* C11: for an activation whose stream has not failed, the audio requests
\* sent to the provider are at every moment a prefix of the non-empty frames
\* received since (and with) the frame that started the activation, and once
\* the generator has returned on the end marker they are all of them, in
\* arrival order, each once.
C11_RequestsAreTheFramesOfTheActivation ==
  \A w \in Workers :
    (wpc[w] # "unborn" /\ nfail[w] = 0) =>
      /\ IsPrefix(sentAudio[w], NonEmpty(FramesOf(w)))
      /\ (gen[w] = "returned" /\ WritesCompleted(w[1]))
            => sentAudio[w] = NonEmpty(FramesOf(w))

\* C11 witness: a stopped activation of two frames, the first of them not
\* empty, whose generator has returned with the frames sent.
C11_Witness ==
  \E w \in Workers :
    /\ nfail[w] = 0
    /\ gen[w] = "returned"
    /\ stops[w[1]] > 0
    /\ Len(FramesOf(w)) = 2
    /\ Len(FramesOf(w)[1]) > 0
    /\ sentAudio[w] = NonEmpty(FramesOf(w))

\* ---------------------------------------------------------------- C12
\* The lines of a transcript that the activation k appended.
RECURSIVE LinesFrom(_, _)
LinesFrom(lines, k) ==
  IF lines = <<>> THEN <<>>
  ELSE IF Head(lines).act = k THEN <<Head(lines)>> \o LinesFrom(Tail(lines), k)
       ELSE LinesFrom(Tail(lines), k)

\* The lines a sequence of results calls for: one for each result from
\* position n on that is final and has text left after trimming.
RECURSIVE LinesFor(_, _, _)
LinesFor(rs, k, n) ==
  IF rs = <<>> THEN <<>>
  ELSE IF Head(rs).final /\ Strip(Head(rs).text) # <<>>
         THEN <<[act |-> k, n |-> n, text |-> Head(rs).text]>> \o LinesFor(Tail(rs), k, n + 1)
         ELSE LinesFor(Tail(rs), k, n + 1)

\* C12: the lines a worker has appended to the session's transcript_lines
\* are, in order, one line for each of the results it has received that is
\* final and whose text is not empty after trimming, and no line for any
\* other result (interim, empty, or white space only).
C12_LinesAreTheFinalResultsWithText ==
  \A w \in Workers :
    LinesFrom(transcripts[w[1]], w[2]) = LinesFor(results[w], w[2], 1)

\* C12 witness: a worker has received an interim result with text and then
\* a final result with text, and the transcript holds one line, for the
\* second.
C12_Witness ==
  \E w \in Workers :
    /\ Len(results[w]) = 2
    /\ ~results[w][1].final /\ Strip(results[w][1].text) # <<>>
    /\ results[w][2].final /\ Strip(results[w][2].text) # <<>>
    /\ Len(transcripts[w[1]]) = 1
    /\ transcripts[w[1]][1].n = 2

\* ---------------------------------------------------------------- C13
\* The numbers, in the order of the sequence, of the transcript events of
\* activation k among messages (each <<type, payload>>).
RECURSIVE EventNumbers(_, _)
EventNumbers(msgs, k) ==
  IF msgs = <<>> THEN <<>>
  ELSE IF Head(msgs)[1] = "transcript" /\ Head(msgs)[2].act = k
         THEN <<Head(msgs)[2].n>> \o EventNumbers(Tail(msgs), k)
         ELSE EventNumbers(Tail(msgs), k)

\* The callbacks waiting on the loop that belong to connection c.
RECURSIVE PendingOf(_, _)
PendingOf(lq, c) ==
  IF lq = <<>> THEN <<>>
  ELSE IF Head(lq)[1] = c THEN <<Head(lq)[2]>> \o PendingOf(Tail(lq), c)
       ELSE PendingOf(Tail(lq), c)

Increasing(ns) == \A i \in 1..Len(ns) : \A j \in 1..Len(ns) : i < j => ns[i] < ns[j]

\* C13: the transcript events of one worker are written to the client in
\* the order the worker submitted them: on the connection, and followed by
\* those still waiting on the loop, their numbers increase.
C13_EventsSentInSubmissionOrder ==
  \A w \in Workers :
    Increasing(EventNumbers(sent[w[1]], w[2]) \o EventNumbers(PendingOf(loopq, w[1]), w[2]))

\* C13 witness: two events of one worker have been written to the client and
\* none is waiting.
C13_Witness ==
  \E w \in Workers :
    /\ EventNumbers(sent[w[1]], w[2]) = <<1, 2>>
    /\ loopq = <<>>

\* ---------------------------------------------------------------- C14
IsAck(m) == m[1] = "recording_stopped_ack"

IsTranscript(m) == m[1] = "transcript"

\* The client of the scenario: frames that started one recording, then one
\* recording_stopped, which has been answered.
OneRecordingStopped(c) ==
  /\ hpc[c] = "recv"
  /\ nact[c] = 1
  /\ stops[c] = 1
  /\ NumAcks(c) = 1
  /\ HasEndMarker(<<c, 1>>)

\* C14: for a client that sent frames and then recording_stopped, every
\* transcript event of the recording is written before the
\* recording_stopped_ack and none after it.
C14_NoTranscriptAfterStopAck ==
  \A c \in Conns :
    OneRecordingStopped(c) =>
      \A i \in 1..Len(sent[c]) : \A j \in 1..Len(sent[c]) :
        (i < j /\ IsAck(sent[c][i])) => ~IsTranscript(sent[c][j])

\* ---------------------------------------------------------------- C15
InStopHandler(c) == hpc[c] \in {"stop_join", "stop_summary"}

\* C15: while a handler is between the receipt of recording_stopped and the
\* return of the summarization call, the event loop can still run a send
\* that a worker has submitted.
C15_StopHandlerLeavesTheLoopFree ==
  \A c \in Conns :
    (InStopHandler(c) /\ loopq # <<>>) => ENABLED LoopRunCallback

\* ---------------------------------------------------------------- C16
\* A worker the stop handler has given up on: it still runs, and the
\* handler has finished (summary computed, ack sent, handles reset), so the
\* connection's queue is no longer this worker's.
Abandoned(w) == IsAlive(w) /\ audio_q[w[1]] # w[2] /\ hpc[w[1]] \notin {"stop_join", "stop_summary"}

\* C16: an abandoned worker appends no line to the session's
\* transcript_lines.  (Its generators read only the queue it was started
\* with, so the part of the claim about the queues of later activations is
\* not what fails.)
C16_AbandonedWorkerLeavesSessionAlone ==
  [][\A w \in Workers :
       Abandoned(w) =>
         LinesFrom(transcripts'[w[1]], w[2]) = LinesFrom(transcripts[w[1]], w[2])
    ]_vars

\* ---------------------------------------------------------------- C17
NoTranscription == [summary |-> <<"No transcription available">>, key_points |-> <<>>]

TextsOf(lines) == [i \in 1..Len(lines) |-> lines[i].text]

\* C17: every recording_stopped gets exactly one recording_stopped_ack: the
\* acks sent are as many as the stops received, less the one being handled.
\* The ack carries the summary object of the transcript_lines of that moment:
\* the fixed "No transcription available" object, without a summarizer call,
\* when there are none; otherwise the summarizer is called once and the
\* object holds its summary of those lines, or no summary and the message of
\* its failure, and the handler is back in the message loop either way.
C17_EveryStopGetsOneAckWithSummary ==
  /\ [](\A c \in Conns :
          NumAcks(c) = stops[c] - (IF InStopHandler(c) THEN 1 ELSE 0))
  /\ [][\A c \in Conns :
          (stops'[c] = stops[c] /\ NumAcks(c) < stops[c] /\ ~InStopHandler(c)') =>
            /\ hpc'[c] = "recv"
            /\ Len(sent'[c]) = Len(sent[c]) + 1
            /\ LET ack == sent'[c][Len(sent'[c])] IN
                 /\ IsAck(ack)
                 /\ IF transcripts[c] = <<>>
                      THEN /\ ack[2] = NoTranscription
                           /\ sumCalls'[c] = sumCalls[c]
                      ELSE /\ sumCalls'[c] = sumCalls[c] + 1
                           /\ \/ ack[2] = [summary |-> <<"summary of", TextsOf(transcripts[c])>>,
                                           error |-> <<>>]
                              \/ ack[2] = [summary |-> <<>>, error |-> <<"summarizer failed">>]
       ]_vars

\* C17 witness: two stops answered, one with the "No transcription
\* available" object and one with the message of a summarizer failure.
C17_Witness ==
  \E c \in Conns :
    /\ stops[c] = 2
    /\ NumAcks(c) = 2
    /\ sumCalls[c] = 1
    /\ \E i \in 1..Len(sent[c]) : IsAck(sent[c][i]) /\ sent[c][i][2] = NoTranscription
    /\ \E i \in 1..Len(sent[c]) :
         IsAck(sent[c][i]) /\ sent[c][i][2] = [summary |-> <<>>, error |-> <<"summarizer failed">>]

\* ---------------------------------------------------------------- C18
\* C18: a malformed control message is ignored: the step that takes it sends
\* nothing, leaves the sample rate, recording_active, the queue and the
\* worker as they were, and leaves the handler in its message loop.
C18_MalformedControlIsIgnored ==
  [][\A c \in Conns :
       malformed'[c] # malformed[c] =>
         /\ sent'[c] = sent[c]
         /\ current_sample_rate'[c] = current_sample_rate[c]
         /\ recording_active'[c] = recording_active[c]
         /\ audio_q'[c] = audio_q[c]
         /\ stt_thread'[c] = stt_thread[c]
         /\ q' = q
         /\ hpc'[c] = "recv"
    ]_vars

\* ---------------------------------------------------------------- C19
\* C19: whatever happens while the worker processes a response, the worker
\* goes on with the same stream: it is neither ended nor sent back to open
\* another stream, and its generator stays as it was.
C19_ResponseErrorIsConfined ==
  [][\A w \in Workers :
       Len(results'[w]) > Len(results[w]) =>
         /\ wpc'[w] = "stream"
         /\ gen'[w] = gen[w]
         /\ exitCause'[w] = exitCause[w]
    ]_vars

\* ---------------------------------------------------------------- C20
\* A worker of the connection has exited on a provider error that is not
\* the silence timeout.
WorkerDiedOnError(c) == \E w \in WorkersOf(c) : exitCause[w] = "error"

\* C20: once a worker of a session has exited on an unrecognized provider
\* error, no line is appended to the session's transcript_lines and no new
\* transcript event is produced for its connection, whatever the client
\* sends.
C20_NoTranscriptAfterFatalError ==
  [][\A c \in Conns :
       WorkerDiedOnError(c) =>
         /\ transcripts'[c] = transcripts[c]
         /\ Len(PendingOf(loopq', c)) <= Len(PendingOf(loopq, c))
    ]_vars

\* ---------------------------------------------------------------- C21
\* C21: audio_format with rate R is answered by audio_format_ack with R, and
\* a binary frame put on a worker's queue goes to a worker whose streams are
\* configured with the connection's sample rate of that moment, the rate of
\* the last audio_format processed.
C21_FramesStreamedAtNegotiatedRate ==
  [][\A c \in Conns :
       /\ (current_sample_rate'[c] # current_sample_rate[c]) =>
             sent'[c] = Append(sent[c], <<"audio_format_ack", current_sample_rate'[c]>>)
       /\ \A w \in WorkersOf(c) :
            (Len(putLog'[w]) > Len(putLog[w]) /\ putLog'[w][Len(putLog'[w])].kind = "chunk") =>
               sample_rate'[w] = current_sample_rate[c]
    ]_vars

\* ---------------------------------------------------------------- C22
\* The labels of the words that carry one.
LabelsIn(ws) == {ws[i].label : i \in 1..Len(ws)} \ {""}

Occurrences(ws, l) == Cardinality({i \in 1..Len(ws) : ws[i].label = l})

FirstSeen(ws, l) == CHOOSE i \in 1..Len(ws) : ws[i].label = l /\ \A j \in 1..(i - 1) : ws[j].label # l

\* The label the words' speaker label is built from: no other label occurs
\* more often, and none that occurs as often was seen earlier.
Majority(ws) ==
  CHOOSE l \in LabelsIn(ws) :
    \A m \in LabelsIn(ws) :
      \/ Occurrences(ws, l) > Occurrences(ws, m)
      \/ Occurrences(ws, l) = Occurrences(ws, m) /\ FirstSeen(ws, l) <= FirstSeen(ws, m)

LabelsOf(ws) == [i \in 1..Len(ws) |-> ws[i].label]

\* C22: the speaker label of an event is "Speaker" followed by the most
\* frequent non-empty label of the result's words, the first seen of the
\* labels that tie ([2,2,1] gives 2, [1,2] gives 1), and the plain "Speaker"
\* when no word carries a label.
C22_SpeakerLabelIsFirstMostFrequent ==
  "speaker_label" \in applied =>
    /\ speaker_label = IF LabelsIn(words) = {} THEN <<"Speaker">>
                                              ELSE SpeakerName(Majority(words))
    /\ LabelsOf(words) = <<"2", "2", "1">> => speaker_label = SpeakerName("2")
    /\ LabelsOf(words) = <<"1", "2">> => speaker_label = SpeakerName("1")

C22_Witness ==
  /\ "speaker_label" \in applied
  /\ LabelsOf(words) = <<"", "2", "1">>
  /\ speaker_label = SpeakerName("2")

\* ---------------------------------------------------------------- C23
\* The positions where a turn starts: the first word, and every word whose
\* label is not the label of the word before it.
TurnStarts(ws) == {i \in 1..Len(ws) : i = 1 \/ ws[i].label # ws[i - 1].label}

\* The last word of the turn that starts at position i.
TurnEnd(ws, i) ==
  CHOOSE j \in i..Len(ws) :
    /\ \A k \in (i + 1)..j : k \notin TurnStarts(ws)
    /\ j = Len(ws) \/ (j + 1) \in TurnStarts(ws)

\* The k-th start, counted from the first word.
KthStart(ws, k) ==
  CHOOSE i \in TurnStarts(ws) : Cardinality({j \in TurnStarts(ws) : j < i}) = k - 1

WordsFromTo(ws, a, b) == [m \in 1..(b - a + 1) |-> ws[a + m - 1].word]

\* The texts of the turns of a word sequence: a turn per run of equal labels.
RunTexts(ws) ==
  [k \in 1..Cardinality(TurnStarts(ws)) |->
     JoinSpace(WordsFromTo(ws, KthStart(ws, k), TurnEnd(ws, KthStart(ws, k))))]

TurnTexts(turns) == [k \in 1..Len(turns) |-> turns[k].text]

\* C23: both bulk aggregations of a non-empty word sequence, with or without
\* word timing, give one turn per run of words with the same label (no label
\* being a label of its own), in order, each with the run's words joined by
\* single spaces.
C23_BulkTurnsAreTheLabelRuns ==
  words # <<>> =>
    /\ "chirp3" \in applied => TurnTexts(chirp3_turns) = RunTexts(words)
    /\ "upload" \in applied => TurnTexts(upload_turns) = RunTexts(words)

\* ---------------------------------------------------------------- C24
\* The whole text of a result: its words joined by single spaces, or its
\* transcript when it has no words.
FullTextOf(ws) ==
  IF ws = <<>> THEN NoWordsTranscript ELSE JoinSpace(WordsFromTo(ws, 1, Len(ws)))

\* The speakers the code names when it has no label to name.
Placeholders == { <<"Speaker">>, <<"Unknown", " ", "Speaker">>, SpeakerName("1") }

OneTurnWithAllText(turns, ws) ==
  /\ Len(turns) = 1
  /\ turns[1].text = FullTextOf(ws)
  /\ turns[1].speaker \in Placeholders

\* C24: a result none of whose words has a speaker label gives exactly one
\* turn in both bulk aggregations, under a placeholder speaker and with the
\* whole text of the result, however many words there are.
C24_UnlabeledResultIsOneTurn ==
  (\A i \in 1..Len(words) : words[i].label = "") =>
    /\ "chirp3" \in applied => OneTurnWithAllText(chirp3_turns, words)
    /\ "upload" \in applied => OneTurnWithAllText(upload_turns, words)

\* ---------------------------------------------------------------- C25
\* The step is a post-processing run of connection c returning.
PostRunReturns(c) == Len(postLog'[c]) > Len(postLog[c])

\* The events the step has submitted to the loop for connection c.
Submitted(c) ==
  LET before == PendingOf(loopq, c)
      after == PendingOf(loopq', c)
  IN SubSeq(after, Len(before) + 1, Len(after))

IsPostError(m) == m[1] = "post_processing_error"

IsPostComplete(m) == m[1] = "post_processing_complete"

\* C25: a post-processing run in which transcoding, the upload, the batch
\* recognition or the summarization failed submits a post_processing_error
\* event for the client, and leaves the connection handler where it is and
\* the recording state of the session as it is.
C25_PostFailureIsReportedAsError ==
  [][\A c \in Conns :
       (PostRunReturns(c) /\ postLog'[c][Len(postLog'[c])].stage # "none") =>
          /\ \E i \in 1..Len(Submitted(c)) : IsPostError(Submitted(c)[i])
          /\ hpc'[c] = hpc[c]
          /\ recording_active'[c] = recording_active[c]
          /\ audio_q'[c] = audio_q[c]
          /\ stt_thread'[c] = stt_thread[c]
    ]_vars

\* ---------------------------------------------------------------- C30
\* C30: every answered recording_stopped has started one post-processing
\* run, and every run that returns has submitted exactly one event, a
\* post_processing_complete or a post_processing_error, whatever process_file
\* returned.
C30_OneRunPerStopOneEventPerRun ==
  /\ [](\A c \in Conns : post_running[c] + Len(postLog[c]) = NumAcks(c))
  /\ [][\A c \in Conns :
          PostRunReturns(c) =>
            /\ Len(Submitted(c)) = 1
            /\ IsPostError(Submitted(c)[1]) \/ IsPostComplete(Submitted(c)[1])
       ]_vars

\* ---------------------------------------------------------------- C26
\* The step is connection c taking a frame with data whose bytes did not
\* reach the log.
LogWriteFails(c) ==
  /\ Len(chunks'[c]) > Len(chunks[c])
  /\ chunks'[c][Len(chunks'[c])] # <<>>
  /\ written'[c] = written[c]

\* C26: a frame whose log write fails takes the handler out of its loop, is
\* put on no queue, and is not counted: total_bytes of a session is at all
\* times the number of bytes appended to its log.
C26_FailedWriteIsNotCounted ==
  /\ [](\A c \in Conns : total_bytes[c] = Len(written[c]))
  /\ [][\A c \in Conns :
          LogWriteFails(c) =>
            /\ hpc[c] = "recv" /\ hpc'[c] = "fin_join"
            /\ \A w \in WorkersOf(c) :
                 Len(putLog'[w]) > Len(putLog[w]) => putLog'[w][Len(putLog'[w])].kind = "end"
       ]_vars

\* ---------------------------------------------------------------- C27
\* The step takes connection c out of its message loop, whatever the cause.
TeardownBegins(c) == hpc[c] # "fin_join" /\ hpc'[c] = "fin_join"

\* The step ends the teardown of connection c.
TeardownEnds(c) == hpc[c] = "fin_join" /\ hpc'[c] = "closed"

\* C27: whatever takes a connection out of its loop, the teardown puts the
\* end marker on the queue of the recording that is active and on no other
\* queue, can always complete (the join is bounded and nothing raises), and
\* completes with the session's id out of the table and the files as they
\* were.
C27_TeardownAlwaysCompletes ==
  /\ [](\A c \in Conns : hpc[c] = "fin_join" => ENABLED FinJoinReturn(c))
  /\ [][\A c \in Conns :
          /\ TeardownBegins(c) =>
               \A w \in WorkersOf(c) :
                 putLog'[w] = IF recording_active[c] /\ audio_q[c] = w[2]
                                THEN Append(putLog[w], EndMarker)
                                ELSE putLog[w]
          /\ TeardownEnds(c) =>
               /\ session_id[c] \notin DOMAIN sessions'
               /\ files' = files
       ]_vars

C27_Witness ==
  /\ hpc["c1"] = "closed"
  /\ stops["c1"] = 0
  /\ HasEndMarker(<<"c1", 1>>)
  /\ wpc[<<"c1", 1>>] = "stream"
  /\ session_id["c1"] \notin DOMAIN sessions
  /\ Filepath(session_id["c1"]) \in DOMAIN files

\* ---------------------------------------------------------------- C28
IsSaved(m) == m[1] = "recording_saved"

\* The step answers a recording_complete of connection c.
AnswersComplete(c) ==
  /\ Len(sent'[c]) = Len(sent[c]) + 1
  /\ IsSaved(sent'[c][Len(sent'[c])])

\* C28: recording_complete is answered by one recording_saved whose stats
\* are the session's figures of that moment (the frames received, their
\* bytes, the transcript lines kept), and the step changes nothing of the
\* session, of the recording, of the queues, of the files or of the table.
C28_CompleteReportsStatsAndChangesNothing ==
  [][\A c \in Conns :
       AnswersComplete(c) =>
         LET stats == sent'[c][Len(sent'[c])][2]
         IN /\ stats.chunks_received = Len(chunks[c])
            /\ stats.total_bytes = SumLen(chunks[c])
            /\ stats.transcript_lines = Len(transcripts[c])
            /\ stats.session_id = session_id[c]
            /\ SubSeq(sent'[c], 1, Len(sent[c])) = sent[c]
            /\ UNCHANGED <<fsVars, hpc, sessVars, localVars, threadVars, queueVars,
                           provVars, loopVars, postVars>>
    ]_vars

C28_Witness ==
  \E i \in 1..Len(sent["c1"]) :
    /\ IsSaved(sent["c1"][i])
    /\ sent["c1"][i][2].chunks_received = 2
    /\ sent["c1"][i][2].total_bytes = 2
    /\ sent["c1"][i][2].transcript_lines = 1
    /\ recording_active["c1"]

\* ---------------------------------------------------------------- C29
\* C29: on every queue an end marker is the last item ever put: a queue
\* gets at most one end marker and no chunk after it, whatever frames, stops
\* and closes the connection goes through.
C29_EndMarkerIsLast ==
  \A w \in Workers :
    \A i \in 1..Len(putLog[w]) : putLog[w][i].kind = "end" => i = Len(putLog[w])

C29_Witness ==
  /\ hpc["c1"] = "closed"
  /\ stops["c1"] = 2
  /\ Len(putLog[<<"c1", 1>>]) = 2
  /\ HasEndMarker(<<"c1", 1>>)
  /\ Len(putLog[<<"c1", 2>>]) = 2
  /\ HasEndMarker(<<"c1", 2>>)

\* ---------------------------------------------------------------- C31
\* C31: the turns transcribe_with_chirp3 makes of the words of one result
\* hold every word once and in order (their texts joined by single spaces
\* are the words joined by single spaces), and no turn has the speaker of
\* the turn before it.
C31_Chirp3KeepsEveryWordInOrder ==
  ("chirp3" \in applied /\ words # <<>>) =>
    /\ JoinSpace(TurnTexts(chirp3_turns)) = JoinSpace(WordsFromTo(words, 1, Len(words)))
    /\ \A k \in 1..(Len(chirp3_turns) - 1) :
         chirp3_turns[k].speaker # chirp3_turns[k + 1].speaker

C31_Witness ==
  /\ "chirp3" \in applied
  /\ LabelsOf(words) = <<"", "1", "2">>
  /\ Len(chirp3_turns) = 3
  /\ chirp3_turns[1].speaker = <<"Unknown", " ", "Speaker">>

====
